---- MODULE Spec2Model ----
(***************************************************************************)
(* Model of the REST API: the users and posts tables, the token check, the *)
(* route pipelines of authRoutes / postRoutes / app, the controllers and   *)
(* the terminal error handler.  One action is one HTTP request, run from   *)
(* its first middleware to the response it writes.                         *)
(*                                                                         *)
(* The router is taken to hand an error thrown by an async controller to   *)
(* the error middleware registered last in app.ts (the documented intent   *)
(* of "Error handling middleware (must be last)").                         *)
(***************************************************************************)
EXTENDS Integers, Sequences, FiniteSets, TLC

(* ------------------------------ bounds -------------------------------- *)
MaxUsers == 2
MaxPosts == 2
MaxListed == 16

(* -------------------------- program constants ------------------------- *)
saltRounds == 12
MinPasswordLen == 6
DefaultPage == 1
DefaultLimit == 10
JWT_SECRET == "jwt-secret"

(* A value JavaScript calls undefined / NaN, and SQL NULL.                 *)
NaN == -1
Null == "<null>"

(* -------------------- strings of characters, parseInt ----------------- *)
DigitChars == <<"0", "1", "2", "3", "4", "5", "6", "7", "8", "9">>

IsDigit(c) == \E i \in 1..Len(DigitChars) : DigitChars[i] = c

DigitValue(c) == (CHOOSE i \in 1..Len(DigitChars) : DigitChars[i] = c) - 1

(* /^\d+$/                                                                 *)
MatchesDigits(s) == Len(s) >= 1 /\ \A i \in 1..Len(s) : IsDigit(s[i])

RECURSIVE DecimalValue(_)
DecimalValue(s) ==
    IF s = <<>> THEN 0
    ELSE DecimalValue(SubSeq(s, 1, Len(s) - 1)) * 10 + DigitValue(s[Len(s)])

RECURSIVE LeadingDigits(_)
LeadingDigits(s) ==
    IF s = <<>> \/ ~IsDigit(s[1]) THEN <<>>
    ELSE <<s[1]>> \o LeadingDigits(Tail(s))

(* parseInt(s): the value of the leading digits, NaN when there are none   *)
ParseInt(s) ==
    IF LeadingDigits(s) = <<>> THEN NaN ELSE DecimalValue(LeadingDigits(s))

(* n || d                                                                  *)
OrDefault(n, d) == IF n = NaN \/ n = 0 THEN d ELSE n

(* String(n) for the small numbers used as path parameters                 *)
NumberToString(n) == <<DigitChars[n + 1]>>

VARIABLES
    users,      \* rows of the users table
    posts,      \* rows of the posts table
    userSeq,    \* last value of the users.id serial
    postSeq,    \* last value of the posts.id serial
    now,        \* the clock; it has moved on whenever a post is inserted
    issued,     \* user ids for which a token was handed to a client
    NODE_ENV,   \* CONFIG.NODE_ENV, read once at start
    req,        \* the last request
    res,        \* the response written to it
    stages,     \* the middleware and handlers that request entered, in order
    raised,     \* the error that request handed to the error middleware
    inflight    \* requests being served step by step, side by side

vars == <<users, posts, userSeq, postSeq, now, issued, NODE_ENV, req, res, stages,
          raised, inflight>>
db == <<users, posts, userSeq, postSeq>>

(* ------------------------------ inputs -------------------------------- *)
EmailInputs == {"a@x.io", "b@x.io", "not-an-email"}

(* z.string().email(): the inputs that have the shape local@domain.tld     *)
IsEmail(s) == s \in {"a@x.io", "b@x.io"}

(* --------------------------- bcrypt and jwt --------------------------- *)
(* bcrypt.hash(password, saltRounds): a salted digest, not the password    *)
BcryptHash(password, rounds) ==
    [alg |-> "bcrypt", cost |-> rounds, digest |-> <<"H", password>>]

(* bcrypt.compare(password, hash)                                          *)
BcryptCompare(password, hash) ==
    hash.digest = <<"H", password>>

(* mutant: the payload carries the number of rows found, not the row's id *)
JwtSignRowCount(payloadUserId, secret) ==
    [userId |-> 1, sig |-> secret, exp |-> "fresh"]

(* jwt.sign({ userId }, secret, { expiresIn })                             *)
JwtSign(payloadUserId, secret) ==
    [userId |-> payloadUserId, sig |-> secret, exp |-> "fresh"]

(* mutant: verification with ignoreExpiration                             *)
JwtVerifyIgnoreExpiration(token, secret) ==
    token.sig = secret

(* jwt.verify(token, secret): TRUE when it returns, FALSE when it throws   *)
JwtVerify(token, secret) ==
    token.sig = secret /\ token.exp = "fresh"

(* Tokens a client can put in a request: one it was issued, one it was     *)
(* issued and kept past its expiry, one signed with another key.           *)
ClientTokens ==
    [userId : issued, sig : {JWT_SECRET}, exp : {"fresh"}]
    \cup [userId : issued \cap {1}, sig : {JWT_SECRET}, exp : {"expired"}]
    \cup {[userId |-> 1, sig |-> "other-key", exp |-> "fresh"]}

(* The Authorization header, split on ' ' as authenticateToken splits it.  *)
AuthHeaders ==
    {<<>>} \cup {<<"Bearer", t>> : t \in ClientTokens}

(* --------------------------- error handling --------------------------- *)
(* createError(message, statusCode); site is where the Error was made,     *)
(* which is what err.stack records                                         *)
createError(message, statusCode, site) ==
    [message |-> message, statusCode |-> statusCode, isOperational |-> TRUE,
     stack |-> site]

(* an error thrown by a library (the database driver): no statusCode       *)
ThrownError(message, site) ==
    [message |-> message, statusCode |-> 0, isOperational |-> FALSE,
     stack |-> site]

(* mutant: the stack is sent whatever NODE_ENV is                          *)
errorHandlerAlwaysStack(err, env) ==
    LET statusCode == IF err.statusCode # 0 THEN err.statusCode ELSE 500
        message == IF err.message # "" THEN err.message
                   ELSE "Internal Server Error"
    IN  [status |-> statusCode, writer |-> "errorHandler",
         body |-> [success |-> FALSE, message |-> message,
                   stack |-> err.stack]]

(* mutant: the status is read from err.status, a field no error here has  *)
errorHandlerStatusField(err, env) ==
    LET statusCode == 500
        message == IF err.message # "" THEN err.message
                   ELSE "Internal Server Error"
    IN  [status |-> statusCode, writer |-> "errorHandler",
         body |-> IF env = "development"
                  THEN [success |-> FALSE, message |-> message,
                        stack |-> err.stack]
                  ELSE [success |-> FALSE, message |-> message]]

(* errorHandler(err, req, res, next)                                       *)
errorHandler(err, env) ==
    LET statusCode == IF err.statusCode # 0 THEN err.statusCode ELSE 500
        message == IF err.message # "" THEN err.message
                   ELSE "Internal Server Error"
    IN  [status |-> statusCode, writer |-> "errorHandler",
         body |-> IF env = "development"
                  THEN [success |-> FALSE, message |-> message,
                        stack |-> err.stack]
                  ELSE [success |-> FALSE, message |-> message]]

(* res.status(s).json(body) written by `writer`                            *)
Json(writer, status, body) ==
    [status |-> status, writer |-> writer, body |-> body]

(* no error was handed to the error middleware                            *)
NoError == [message |-> "", statusCode |-> 0, isOperational |-> FALSE,
            stack |-> "none"]

(* throw e in a controller, or next(e) in a middleware: the router skips   *)
(* to errorHandler, which writes the response                              *)
Fail(e) ==
    /\ res' = errorHandler(e, NODE_ENV)
    /\ raised' = e

(* ---------------------------- token check ----------------------------- *)
NoUser == [id |-> 0, email |-> "", firstName |-> "", lastName |-> ""]

(* db.select({id, email, firstName, lastName}).from(users)                 *)
(*   .where(eq(users.id, userId)).limit(1)                                 *)
SelectAuthUser(userId) ==
    {[id |-> u.id, email |-> u.email, firstName |-> u.firstName,
      lastName |-> u.lastName] : u \in {r \in users : r.id = userId}}

(* mutant: a token that fails verification is answered 500                *)
authenticateTokenCatch500(header) ==
    IF Len(header) < 2
    THEN [next |-> FALSE, user |-> NoUser,
          res |-> Json("authenticateToken", 401,
                       [success |-> FALSE, message |-> "Access token required"])]
    ELSE IF ~JwtVerify(header[2], JWT_SECRET)
    THEN [next |-> FALSE, user |-> NoUser,
          res |-> Json("authenticateToken", 500,
                       [success |-> FALSE, message |-> "Invalid or expired token"])]
    ELSE IF SelectAuthUser(header[2].userId) = {}
    THEN [next |-> FALSE, user |-> NoUser,
          res |-> Json("authenticateToken", 401,
                       [success |-> FALSE, message |-> "Invalid token"])]
    ELSE [next |-> TRUE,
          user |-> CHOOSE u \in SelectAuthUser(header[2].userId) : TRUE,
          res |-> Json("authenticateToken", 0, [success |-> TRUE])]

(* authenticateToken: next = TRUE when it calls next() with req.user set,  *)
(* otherwise res is the response it writes itself                          *)
authenticateToken(header) ==
    IF Len(header) < 2
    THEN [next |-> FALSE, user |-> NoUser,
          res |-> Json("authenticateToken", 401,
                       [success |-> FALSE, message |-> "Access token required"])]
    ELSE IF ~JwtVerify(header[2], JWT_SECRET)
    THEN [next |-> FALSE, user |-> NoUser,
          res |-> Json("authenticateToken", 403,
                       [success |-> FALSE, message |-> "Invalid or expired token"])]
    ELSE IF SelectAuthUser(header[2].userId) = {}
    THEN [next |-> FALSE, user |-> NoUser,
          res |-> Json("authenticateToken", 401,
                       [success |-> FALSE, message |-> "Invalid token"])]
    ELSE [next |-> TRUE,
          user |-> CHOOSE u \in SelectAuthUser(header[2].userId) : TRUE,
          res |-> Json("authenticateToken", 0, [success |-> TRUE])]

(* ----------------------------- validation ----------------------------- *)
(* registerSchema                                                          *)
registerSchema(body) ==
    /\ IsEmail(body.email)
    /\ Len(body.password) >= MinPasswordLen
    /\ Len(body.firstName) >= 1
    /\ Len(body.lastName) >= 1

(* loginSchema                                                             *)
loginSchema(body) ==
    /\ IsEmail(body.email)
    /\ Len(body.password) >= 1

(* The error a failed schema check hands to the error middleware.          *)
ValidationError == createError("Validation error", 400, "validation.ts")

(* ------------------------------ requests ------------------------------ *)
EmptyObj == [k \in {} |-> ""]

Request(route, headers, params, query, body) ==
    [route |-> route, headers |-> headers, params |-> params,
     query |-> query, body |-> body]

RegisterBodies ==
    [email : EmailInputs, password : {"secret1"}, firstName : {"Ann"},
     lastName : {"Lee"}]
    \cup {[email |-> "a@x.io", password |-> "short", firstName |-> "Ann",
           lastName |-> "Lee"],
          [email |-> "a@x.io", password |-> "secret1", firstName |-> "",
           lastName |-> "Lee"]}

LoginBodies == [email : EmailInputs, password : {"secret1", "secret2", ""}]

(* no request is being served                                              *)
NoRequest == Request("none", <<>>, EmptyObj, EmptyObj, EmptyObj)
NoResponse == Json("none", 0, [success |-> TRUE])
Idle == req = NoRequest

(* --------------------------- AuthController --------------------------- *)
(* mutant: the lookup compares another column                             *)
SelectUserByFirstName(email) == {u \in users : u.firstName = email}

(* db.select().from(users).where(eq(users.email, email)).limit(1)          *)
SelectUserByEmail(email) == {u \in users : u.email = email}

(* the row db.insert(users).values({...}) stores.  The createdAt and       *)
(* updatedAt columns of users, filled by defaultNow() and read by no       *)
(* condition of the program, are left out of the row.                      *)
NewUserRow(body) ==
    [id |-> userSeq + 1, email |-> body.email,
     password |-> BcryptHash(body.password, saltRounds),
     firstName |-> body.firstName, lastName |-> body.lastName,
     isActive |-> TRUE]

(* mutant: an upsert keyed on the last name                               *)
InsertUserUpsertLastName(row) ==
    {u \in users : u.lastName # row.lastName} \cup {row}

(* the users table after db.insert(users).values(row)                      *)
InsertUser(row) == users \cup {row}

(* email: ... .notNull().unique()                                          *)
EmailUnique(row) == \A u \in users : u.email # row.email

(* .returning({id, email, firstName, lastName, createdAt})                 *)
RegisterReturning(u) ==
    [id |-> u.id, email |-> u.email, firstName |-> u.firstName,
     lastName |-> u.lastName]

(* mutant: the row is sent as selected                                     *)
UserWithPassword(u) == u

(* const { password: _, ...userWithoutPassword } = user[0]                 *)
UserWithoutPassword(u) ==
    [id |-> u.id, email |-> u.email, firstName |-> u.firstName,
     lastName |-> u.lastName, isActive |-> u.isActive]

(* POST /auth/register: validateBody(registerSchema), register             *)
Register ==
    \E body \in RegisterBodies :
        /\ Idle
        /\ req' = Request("register", <<>>, EmptyObj, EmptyObj, body)
        /\ IF ~registerSchema(body)
           THEN /\ stages' = <<"validateBody", "errorHandler">>
                /\ Fail(ValidationError)
                /\ UNCHANGED <<users, userSeq, issued>>
           ELSE IF SelectUserByEmail(body.email) # {}
           THEN /\ stages' = <<"validateBody", "register", "errorHandler">>
                /\ Fail(
                              createError("User with this email already exists",
                                          400, "register:57"))
                /\ UNCHANGED <<users, userSeq, issued>>
           ELSE IF ~EmailUnique(NewUserRow(body))
           THEN /\ userSeq < MaxUsers
                /\ stages' = <<"validateBody", "register", "errorHandler">>
                /\ Fail(
                              ThrownError("violates unique constraint",
                                          "register:65"))
                /\ userSeq' = userSeq + 1
                /\ UNCHANGED <<users, issued>>
           ELSE /\ userSeq < MaxUsers
                /\ stages' = <<"validateBody", "register">>
                /\ users' = InsertUser(NewUserRow(body))
                /\ userSeq' = userSeq + 1
                /\ issued' = issued \cup {userSeq + 1}
                /\ raised' = NoError
                /\ res' = Json("register", 201,
                      [success |-> TRUE,
                       message |-> "User registered successfully",
                       data |-> [user |-> RegisterReturning(NewUserRow(body)),
                                 token |-> JwtSign(userSeq + 1, JWT_SECRET)]])
        /\ UNCHANGED <<posts, postSeq, now, NODE_ENV, inflight>>

(* mutant: an unknown email is reported as such                           *)
loginResponseUserNotFound(body, env) ==
    LET user == SelectUserByEmail(body.email)
        u == CHOOSE r \in user : TRUE
    IN  IF user = {}
        THEN errorHandler(createError("User not found", 404, "login:139"), env)
        ELSE IF ~BcryptCompare(body.password, u.password)
        THEN errorHandler(createError("Invalid email or password", 401,
                                      "login:145"), env)
        ELSE Json("login", 200,
                  [success |-> TRUE, message |-> "Login successful",
                   data |-> [user |-> UserWithoutPassword(u),
                             token |-> JwtSign(u.id, JWT_SECRET)]])

(* the error login throws once the body passed loginSchema, if any         *)
loginError(body) ==
    LET user == SelectUserByEmail(body.email)
        u == CHOOSE r \in user : TRUE
    IN  IF user = {}
        THEN createError("Invalid email or password", 401, "login:139")
        ELSE IF ~BcryptCompare(body.password, u.password)
        THEN createError("Invalid email or password", 401, "login:145")
        ELSE NoError

(* the response of login once the body passed loginSchema                  *)
loginResponse(body, env) ==
    LET user == SelectUserByEmail(body.email)
        u == CHOOSE r \in user : TRUE
    IN  IF loginError(body).stack # "none"
        THEN errorHandler(loginError(body), env)
        ELSE Json("login", 200,
                  [success |-> TRUE, message |-> "Login successful",
                   data |-> [user |-> UserWithoutPassword(u),
                             token |-> JwtSign(u.id, JWT_SECRET)]])

(* POST /auth/login: validateBody(loginSchema), login                      *)
Login ==
    \E body \in LoginBodies :
        /\ Idle
        /\ req' = Request("login", <<>>, EmptyObj, EmptyObj, body)
        /\ IF ~loginSchema(body)
           THEN /\ stages' = <<"validateBody", "errorHandler">>
                /\ Fail(ValidationError)
                /\ UNCHANGED issued
           ELSE /\ res' = loginResponse(body, NODE_ENV)
                /\ raised' = loginError(body)
                /\ stages' = IF res'.status = 200
                             THEN <<"validateBody", "login">>
                             ELSE <<"validateBody", "login", "errorHandler">>
                /\ issued' = IF res'.status = 200
                             THEN issued \cup {res'.body.data.user.id}
                             ELSE issued
        /\ UNCHANGED <<db, now, NODE_ENV, inflight>>

(* GET /auth/me: authenticateToken, getProfile                             *)
GetProfile ==
    \E header \in AuthHeaders :
        LET auth == authenticateToken(header)
        IN  /\ Idle
            /\ req' = Request("getProfile", header, EmptyObj, EmptyObj, EmptyObj)
            /\ IF ~auth.next
               THEN /\ stages' = <<"authenticateToken">>
                    /\ raised' = NoError
                    /\ res' = auth.res
               ELSE /\ stages' = <<"authenticateToken", "getProfile">>
                    /\ raised' = NoError
                    /\ res' = Json("getProfile", 200,
                                   [success |-> TRUE,
                                    data |-> [user |-> auth.user]])
            /\ UNCHANGED <<db, now, issued, NODE_ENV, inflight>>

(* --------------------------- post schemas ----------------------------- *)
(* createPostSchema                                                        *)
createPostSchema(body) ==
    "title" \in DOMAIN body /\ Len(body.title) >= 1

(* updatePostSchema: every field optional, unknown keys are not an error   *)
updatePostSchema(body) ==
    "title" \in DOMAIN body => Len(body.title) >= 1

(* idParamSchema                                                           *)
idParamSchema(params) ==
    "id" \in DOMAIN params /\ MatchesDigits(params.id)

(* paginationSchema                                                        *)
paginationSchema(query) ==
    /\ "page" \in DOMAIN query => MatchesDigits(query.page)
    /\ "limit" \in DOMAIN query => MatchesDigits(query.limit)

CreatePostBodies ==
    {[title |-> "T1"],
     [title |-> "T2", content |-> "text", isPublished |-> TRUE],
     [title |-> ""]}

UpdatePostBodies ==
    {EmptyObj, [title |-> "T2", content |-> "text", isPublished |-> TRUE],
     [title |-> ""]}
    \cup [authorId : 1..(MaxUsers + 1)]

IdInputs == {NumberToString(n) : n \in 1..MaxPosts} \cup {<<"x">>}

Queries ==
    {EmptyObj, [page |-> <<"x">>], [limit |-> <<"0">>], [page |-> <<"2">>],
     [page |-> <<"0">>, limit |-> <<"0", "2">>]}
    \cup [page : {<<"1">>, <<"2">>, <<"3">>}, limit : {<<"1">>, <<"2">>}]

(* --------------------------- PostController --------------------------- *)
Min(a, b) == IF a <= b THEN a ELSE b

(* req.query.page / req.query.limit, undefined when absent                 *)
QueryPage(query) ==
    OrDefault(IF "page" \in DOMAIN query THEN ParseInt(query.page) ELSE NaN,
              DefaultPage)

QueryLimit(query) ==
    OrDefault(IF "limit" \in DOMAIN query THEN ParseInt(query.limit) ELSE NaN,
              DefaultLimit)

(* mutant: the offset skips the requested page as well                    *)
OffsetPastPage(page, limit) == page * limit

(* const offset = (page - 1) * limit                                       *)
Offset(page, limit) == (page - 1) * limit

(* .orderBy(desc(posts.createdAt)): every order of the rows the database   *)
(* may return, rows of equal createdAt in any order                        *)
RECURSIVE OrderByCreatedAtDesc(_)
OrderByCreatedAtDesc(rows) ==
    IF rows = {} THEN {<<>>}
    ELSE UNION {{<<r>> \o rest : rest \in OrderByCreatedAtDesc(rows \ {r})} :
                  r \in {x \in rows :
                            \A y \in rows : x.createdAt >= y.createdAt}}

(* .limit(limit).offset(offset)                                            *)
LimitOffset(ordered, limit, offset) ==
    SubSeq(ordered, offset + 1, Min(offset + limit, Len(ordered)))

(* mutant: more pages are announced whenever the page is not empty        *)
PaginationNonEmpty(page, limit, returned) ==
    [page |-> page, limit |-> limit, hasMore |-> (Len(returned) >= 1)]

(* pagination envelope                                                     *)
Pagination(page, limit, returned) ==
    [page |-> page, limit |-> limit, hasMore |-> (Len(returned) = limit)]

(* .leftJoin(users, eq(posts.authorId, users.id)): the author columns      *)
AuthorOf(p) ==
    LET a == {u \in users : u.id = p.authorId}
    IN  IF a = {} THEN [id |-> 0, firstName |-> Null, lastName |-> Null,
                        email |-> Null]
        ELSE LET u == CHOOSE r \in a : TRUE
             IN  [id |-> u.id, firstName |-> u.firstName,
                  lastName |-> u.lastName, email |-> u.email]

(* the columns getAllPosts / getPostById select                            *)
PostWithAuthor(p) ==
    [id |-> p.id, title |-> p.title, content |-> p.content,
     isPublished |-> p.isPublished, createdAt |-> p.createdAt,
     updatedAt |-> p.updatedAt, author |-> AuthorOf(p)]

(* the columns getPostsByUserId selects                                    *)
PostColumns(p) ==
    [id |-> p.id, title |-> p.title, content |-> p.content,
     isPublished |-> p.isPublished, createdAt |-> p.createdAt,
     updatedAt |-> p.updatedAt]

SelectPostById(id) == {p \in posts : p.id = id}

(* GET /posts: validateQuery(paginationSchema), getAllPosts                *)
GetAllPosts ==
    \E query \in Queries :
        /\ Idle
        /\ req' = Request("getAllPosts", <<>>, EmptyObj, query, EmptyObj)
        /\ IF ~paginationSchema(query)
           THEN /\ stages' = <<"validateQuery", "errorHandler">>
                /\ Fail(ValidationError)
           ELSE \E ordered \in OrderByCreatedAtDesc(posts) :
                  LET page == QueryPage(query)
                      limit == QueryLimit(query)
                      allPosts == LimitOffset(ordered, limit, Offset(page, limit))
                  IN  /\ stages' = <<"validateQuery", "getAllPosts">>
                      /\ raised' = NoError
                      /\ res' = Json("getAllPosts", 200,
                            [success |-> TRUE,
                             data |-> [posts |-> [i \in 1..Len(allPosts) |->
                                                    PostWithAuthor(allPosts[i])],
                                       pagination |->
                                           Pagination(page, limit, allPosts)]])
        /\ UNCHANGED <<db, now, issued, NODE_ENV, inflight>>

(* GET /posts/:id: validateParams(idParamSchema), getPostById              *)
GetPostById ==
    \E id \in IdInputs :
        LET params == [id |-> id]
            post == SelectPostById(ParseInt(id))
        IN  /\ Idle
            /\ req' = Request("getPostById", <<>>, params, EmptyObj, EmptyObj)
            /\ IF ~idParamSchema(params)
               THEN /\ stages' = <<"validateParams", "errorHandler">>
                    /\ Fail(ValidationError)
               ELSE IF post = {}
               THEN /\ stages' = <<"validateParams", "getPostById", "errorHandler">>
                    /\ Fail(
                                  createError("Post not found", 404,
                                              "getPostById:140"))
               ELSE /\ stages' = <<"validateParams", "getPostById">>
                    /\ raised' = NoError
                    /\ res' = Json("getPostById", 200,
                          [success |-> TRUE,
                           data |-> [post |-> PostWithAuthor(
                                                 CHOOSE p \in post : TRUE)]])
            /\ UNCHANGED <<db, now, issued, NODE_ENV, inflight>>

(* GET /posts/user/:userId: validateParams(idParamSchema),                 *)
(* validateQuery(paginationSchema), getPostsByUserId                       *)
GetPostsByUserId ==
    \E userId \in {NumberToString(n) : n \in 1..(MaxUsers + 1)} \cup {<<"x">>},
       query \in {EmptyObj, [page |-> <<"x">>]} :
        LET params == [userId |-> userId]
        IN  /\ Idle
            /\ req' = Request("getPostsByUserId", <<>>, params, query, EmptyObj)
            /\ IF ~idParamSchema(params)
               THEN /\ stages' = <<"validateParams", "errorHandler">>
                    /\ Fail(ValidationError)
               ELSE IF ~paginationSchema(query)
               THEN /\ stages' = <<"validateParams", "validateQuery",
                                   "errorHandler">>
                    /\ Fail(ValidationError)
               ELSE \E ordered \in OrderByCreatedAtDesc(
                           {p \in posts : p.authorId = ParseInt(userId)}) :
                      LET page == QueryPage(query)
                          limit == QueryLimit(query)
                          userPosts == LimitOffset(ordered, limit,
                                                   Offset(page, limit))
                      IN  /\ stages' = <<"validateParams", "validateQuery",
                                         "getPostsByUserId">>
                          /\ raised' = NoError
                          /\ res' = Json("getPostsByUserId", 200,
                                [success |-> TRUE,
                                 data |-> [posts |->
                                             [i \in 1..Len(userPosts) |->
                                                 PostColumns(userPosts[i])],
                                           pagination |->
                                             Pagination(page, limit, userPosts)]])
            /\ UNCHANGED <<db, now, issued, NODE_ENV, inflight>>

(* validateBody(schema): the body the controller reads.  Whether the      *)
(* middleware hands on the parsed object (zod drops the keys the schema    *)
(* does not name) or leaves req.body as sent is decided per build.         *)
ValidatedBody(body, schemaKeys, parsedAssigned) ==
    IF parsedAssigned
    THEN [k \in DOMAIN body \cap schemaKeys |-> body[k]]
    ELSE body

(* authorId: ... .references(() => users.id)                               *)
ForeignKeyHolds(row) == \E u \in users : u.id = row.authorId

(* mutant: the author column gets a number other than req.user.id         *)
NewPostRowOtherAuthor(body, userId, t) ==
    [id |-> postSeq + 1, title |-> body.title,
     content |-> IF "content" \in DOMAIN body THEN body.content ELSE Null,
     authorId |-> userId + 1,
     isPublished |-> IF "isPublished" \in DOMAIN body
                     THEN body.isPublished ELSE FALSE,
     createdAt |-> t, updatedAt |-> t]

(* the row db.insert(posts).values({...}) stores; t is defaultNow()        *)
NewPostRow(body, userId, t) ==
    [id |-> postSeq + 1, title |-> body.title,
     content |-> IF "content" \in DOMAIN body THEN body.content ELSE Null,
     authorId |-> userId,
     isPublished |-> IF "isPublished" \in DOMAIN body
                     THEN body.isPublished ELSE FALSE,
     createdAt |-> t, updatedAt |-> t]

(* POST /posts: authenticateToken, validateBody(createPostSchema),         *)
(* createPost                                                              *)
CreatePost ==
    \E header \in AuthHeaders, body \in CreatePostBodies :
        LET auth == authenticateToken(header)
        IN  /\ Idle
            /\ req' = Request("createPost", header, EmptyObj, EmptyObj, body)
            /\ IF ~auth.next
               THEN /\ stages' = <<"authenticateToken">>
                    /\ raised' = NoError
                    /\ res' = auth.res
                    /\ UNCHANGED <<posts, postSeq, now>>
               ELSE IF ~createPostSchema(body)
               THEN /\ stages' = <<"authenticateToken", "validateBody",
                                   "errorHandler">>
                    /\ Fail(ValidationError)
                    /\ UNCHANGED <<posts, postSeq, now>>
               ELSE /\ postSeq < MaxPosts
                    /\ now' = now + 1
                    /\ posts' = posts \cup {NewPostRow(body, auth.user.id, now')}
                    /\ raised' = NoError
                    /\ res' = Json("createPost", 201,
                          [success |-> TRUE,
                           message |-> "Post created successfully",
                           data |-> [post |->
                                       NewPostRow(body, auth.user.id, now')]])
                    /\ postSeq' = postSeq + 1
                    /\ stages' = <<"authenticateToken", "validateBody",
                                   "createPost">>
            /\ UNCHANGED <<users, userSeq, issued, NODE_ENV, inflight>>

(* mutant: the stored owner is compared with itself                       *)
NotUpdateOwnerSelf(post, userId) == post.authorId # post.authorId

(* existingPost[0].authorId !== userId, in updatePost                      *)
NotUpdateOwner(post, userId) == post.authorId # userId

(* existingPost[0].authorId !== userId, in deletePost                      *)
NotDeleteOwner(post, userId) == post.authorId # userId

(* .set({ ...updateData, updatedAt: new Date() })                          *)
UpdatedRow(post, updateData, t) ==
    [id |-> post.id,
     title |-> IF "title" \in DOMAIN updateData
               THEN updateData.title ELSE post.title,
     content |-> IF "content" \in DOMAIN updateData
                 THEN updateData.content ELSE post.content,
     authorId |-> IF "authorId" \in DOMAIN updateData
                  THEN updateData.authorId ELSE post.authorId,
     isPublished |-> IF "isPublished" \in DOMAIN updateData
                     THEN updateData.isPublished ELSE post.isPublished,
     createdAt |-> post.createdAt,
     updatedAt |-> t]

(* PUT /posts/:id: authenticateToken, validateParams(idParamSchema),       *)
(* validateBody(updatePostSchema), updatePost                              *)
UpdatePost ==
    \E header \in AuthHeaders, id \in IdInputs, body \in UpdatePostBodies,
       parsedAssigned \in BOOLEAN :
        LET auth == authenticateToken(header)
            params == [id |-> id]
            updateData == ValidatedBody(body,
                              {"title", "content", "isPublished"}, parsedAssigned)
            existingPost == SelectPostById(ParseInt(id))
            post == CHOOSE p \in existingPost : TRUE
            row == UpdatedRow(post, updateData, now)
        IN  /\ Idle
            /\ req' = Request("updatePost", header, params, EmptyObj, body)
            /\ IF ~auth.next
               THEN /\ stages' = <<"authenticateToken">>
                    /\ raised' = NoError
                    /\ res' = auth.res
                    /\ UNCHANGED posts
               ELSE IF ~idParamSchema(params)
               THEN /\ stages' = <<"authenticateToken", "validateParams",
                                   "errorHandler">>
                    /\ Fail(ValidationError)
                    /\ UNCHANGED posts
               ELSE IF ~updatePostSchema(body)
               THEN /\ stages' = <<"authenticateToken", "validateParams",
                                   "validateBody", "errorHandler">>
                    /\ Fail(ValidationError)
                    /\ UNCHANGED posts
               ELSE /\ IF existingPost = {}
                       THEN /\ Fail(
                                   createError("Post not found", 404,
                                               "updatePost:252"))
                            /\ UNCHANGED posts
                       ELSE IF NotUpdateOwner(post, auth.user.id)
                       THEN /\ Fail(
                                   createError(
                                       "Not authorized to update this post",
                                       403, "updatePost:256"))
                            /\ UNCHANGED posts
                       ELSE IF ~ForeignKeyHolds(row)
                       THEN /\ Fail(
                                   ThrownError(
                                       "violates foreign key constraint",
                                       "updatePost:260"))
                            /\ UNCHANGED posts
                       ELSE /\ posts' = (posts \ {post}) \cup {row}
                            /\ raised' = NoError
                            /\ res' = Json("updatePost", 200,
                                  [success |-> TRUE,
                                   message |-> "Post updated successfully",
                                   data |-> [post |-> row]])
                    /\ stages' = <<"authenticateToken", "validateParams",
                                   "validateBody", "updatePost">>
                                 \o (IF res'.status = 200 THEN <<>>
                                     ELSE <<"errorHandler">>)
            /\ UNCHANGED <<users, userSeq, postSeq, now, issued, NODE_ENV, inflight>>

(* mutant: the DELETE has lost its WHERE clause                            *)
DeleteWithoutWhere(id) == {}

(* the posts table after db.delete(posts).where(eq(posts.id, id))          *)
DeleteWhereId(id) == posts \ SelectPostById(id)

(* DELETE /posts/:id: authenticateToken, validateParams(idParamSchema),    *)
(* deletePost                                                              *)
DeletePost ==
    \E header \in AuthHeaders, id \in IdInputs :
        LET auth == authenticateToken(header)
            params == [id |-> id]
            existingPost == SelectPostById(ParseInt(id))
            post == CHOOSE p \in existingPost : TRUE
        IN  /\ Idle
            /\ req' = Request("deletePost", header, params, EmptyObj, EmptyObj)
            /\ IF ~auth.next
               THEN /\ stages' = <<"authenticateToken">>
                    /\ raised' = NoError
                    /\ res' = auth.res
                    /\ UNCHANGED posts
               ELSE IF ~idParamSchema(params)
               THEN /\ stages' = <<"authenticateToken", "validateParams",
                                   "errorHandler">>
                    /\ Fail(ValidationError)
                    /\ UNCHANGED posts
               ELSE /\ IF existingPost = {}
                       THEN /\ Fail(
                                   createError("Post not found", 404,
                                               "deletePost:314"))
                            /\ UNCHANGED posts
                       ELSE IF NotDeleteOwner(post, auth.user.id)
                       THEN /\ Fail(
                                   createError(
                                       "Not authorized to delete this post",
                                       403, "deletePost:318"))
                            /\ UNCHANGED posts
                       ELSE /\ posts' = DeleteWhereId(ParseInt(id))
                            /\ raised' = NoError
                            /\ res' = Json("deletePost", 200,
                                  [success |-> TRUE,
                                   message |-> "Post deleted successfully"])
                    /\ stages' = <<"authenticateToken", "validateParams",
                                   "deletePost">>
                                 \o (IF res'.status = 200 THEN <<>>
                                     ELSE <<"errorHandler">>)
            /\ UNCHANGED <<users, userSeq, postSeq, now, issued, NODE_ENV, inflight>>

(* ------------------------- routes without auth ------------------------ *)
(* GET /api/health                                                         *)
Health ==
    /\ Idle
    /\ req' = Request("health", <<>>, EmptyObj, EmptyObj, EmptyObj)
    /\ stages' = <<"health">>
    /\ raised' = NoError
    /\ res' = Json("health", 200,
                   [success |-> TRUE, message |-> "API is running",
                    timestamp |-> now])
    /\ UNCHANGED <<db, now, issued, NODE_ENV, inflight>>

(* GET /                                                                   *)
Root ==
    /\ Idle
    /\ req' = Request("root", <<>>, EmptyObj, EmptyObj, EmptyObj)
    /\ stages' = <<"root">>
    /\ raised' = NoError
    /\ res' = Json("root", 200,
                   [success |-> TRUE,
                    message |-> "Welcome to Node.js Express TypeScript API",
                    version |-> "1.0.0",
                    documentation |-> "/api/docs",
                    endpoints |-> [health |-> "/api/health",
                                   auth |-> "/api/auth",
                                   posts |-> "/api/posts"]])
    /\ UNCHANGED <<db, now, issued, NODE_ENV, inflight>>

(* notFound(req, res, next): the error it passes to next()                 *)
notFound(originalUrl) ==
    [message |-> <<"Route", originalUrl, "not found">>, statusCode |-> 404,
     isOperational |-> FALSE, stack |-> "notFound:37"]

(* any other path: app.use('*', notFound), then errorHandler               *)
UnknownRoute ==
    /\ Idle
    /\ req' = Request("unknown", <<>>, EmptyObj, EmptyObj, EmptyObj)
    /\ stages' = <<"notFound", "errorHandler">>
    /\ Fail(notFound("/nowhere"))
    /\ UNCHANGED <<db, now, issued, NODE_ENV, inflight>>

(* the response has been sent: the exchange is over                       *)
ResponseSent ==
    /\ ~Idle
    /\ req' = NoRequest
    /\ raised' = NoError
    /\ res' = NoResponse
    /\ stages' = <<>>
    /\ UNCHANGED <<db, now, issued, NODE_ENV, inflight>>

Init ==
    /\ users = {}
    /\ posts = {}
    /\ userSeq = 0
    /\ postSeq = 0
    /\ now = 0
    /\ issued = {}
    /\ NODE_ENV \in {"development", "production"}
    /\ req = NoRequest
    /\ res = NoResponse
    /\ stages = <<>>
    /\ raised = NoError
    /\ inflight = <<>>

Next ==
    \/ Register
    \/ Login
    \/ GetProfile
    \/ GetAllPosts
    \/ GetPostById
    \/ GetPostsByUserId
    \/ CreatePost
    \/ UpdatePost
    \/ DeletePost
    \/ Health
    \/ Root
    \/ UnknownRoute
    \/ ResponseSent

Spec == Init /\ [][Next]_vars

(* ------------------- listing a table of many posts -------------------- *)
(* n posts of one user, inserted one after the other; when tied, two       *)
(* consecutive inserts read the same clock value                           *)
ListedPosts(n, tied) ==
    {[id |-> i, title |-> "T1", content |-> Null, authorId |-> 1,
      isPublished |-> FALSE,
      createdAt |-> IF tied THEN (i + 1) \div 2 ELSE i,
      updatedAt |-> IF tied THEN (i + 1) \div 2 ELSE i] : i \in 1..n}

InitListing ==
    \E n \in 0..MaxListed, tied \in BOOLEAN :
        /\ users = {[id |-> 1, email |-> "a@x.io",
                     password |-> BcryptHash("secret1", saltRounds),
                     firstName |-> "Ann", lastName |-> "Lee",
                     isActive |-> TRUE]}
        /\ posts = ListedPosts(n, tied)
        /\ userSeq = 1
        /\ postSeq = n
        /\ now = n
        /\ issued = {1}
        /\ NODE_ENV \in {"development", "production"}
        /\ req = NoRequest
        /\ res = NoResponse
        /\ stages = <<>>
        /\ raised = NoError
        /\ inflight = <<>>

NextListing ==
    \/ GetAllPosts
    \/ ResponseSent

ListingSpec == InitListing /\ [][NextListing]_vars

(* --------------- requests served side by side, step by step ----------- *)
(* Each await of a controller ends a step: between two steps of one        *)
(* request the steps of the others may run.  The middleware of a route     *)
(* runs in the request's first step.                                       *)
MaxInflight == 2

RacingRequest(route, headers, params, body) ==
    [route |-> route, headers |-> headers, params |-> params, body |-> body,
     pc |-> "lookup", res |-> NoResponse, raised |-> NoError]

(* registrations of one new email, updates and deletions of post 1 by its  *)
(* owner, user 1                                                           *)
RacingRequests ==
    {RacingRequest("register", <<>>, EmptyObj, b) :
        b \in {[email |-> "a@x.io", password |-> "secret1",
                firstName |-> "Ann", lastName |-> "Lee"],
               [email |-> "a@x.io", password |-> "secret2",
                firstName |-> "Bob", lastName |-> "Lee"]}}
    \cup {RacingRequest("updatePost", <<"Bearer", JwtSign(1, JWT_SECRET)>>,
                        [id |-> <<"1">>], b) :
            b \in {EmptyObj,
                   [title |-> "T2", content |-> "text", isPublished |-> TRUE]}}
    \cup {RacingRequest("deletePost", <<"Bearer", JwtSign(1, JWT_SECRET)>>,
                        [id |-> <<"1">>], EmptyObj)}

(* request i goes on to its next step                                      *)
Goto(i, pc) == inflight' = [inflight EXCEPT ![i].pc = pc]

(* request i has its response written                                      *)
Respond(i, r) ==
    inflight' = [inflight EXCEPT ![i].pc = "done", ![i].res = r]

(* request i throws e: errorHandler writes its response                    *)
FailRequest(i, e) ==
    inflight' = [inflight EXCEPT ![i].pc = "done",
                                 ![i].res = errorHandler(e, NODE_ENV),
                                 ![i].raised = e]

(* register: validateBody, then await db.select()...where(email)           *)
RegisterLookup(i) ==
    LET r == inflight[i]
    IN  /\ r.route = "register" /\ r.pc = "lookup"
        /\ IF ~registerSchema(r.body)
           THEN FailRequest(i, ValidationError)
           ELSE IF SelectUserByEmail(r.body.email) # {}
           THEN FailRequest(i, createError(
                    "User with this email already exists", 400, "register:57"))
           ELSE Goto(i, "hash")
        /\ UNCHANGED <<db, now, issued, NODE_ENV, req, res, stages, raised>>

(* register: await bcrypt.hash(password, saltRounds)                       *)
RegisterHash(i) ==
    /\ inflight[i].route = "register" /\ inflight[i].pc = "hash"
    /\ Goto(i, "insert")
    /\ UNCHANGED <<db, now, issued, NODE_ENV, req, res, stages, raised>>

(* register: await db.insert(users)...returning(), sign, respond           *)
RegisterInsert(i) ==
    LET r == inflight[i]
        row == NewUserRow(r.body)
    IN  /\ r.route = "register" /\ r.pc = "insert"
        /\ userSeq' = userSeq + 1
        /\ IF ~EmailUnique(row)
           THEN /\ FailRequest(i, ThrownError("violates unique constraint",
                                              "register:65"))
                /\ UNCHANGED <<users, issued>>
           ELSE /\ users' = InsertUser(row)
                /\ issued' = issued \cup {row.id}
                /\ Respond(i, Json("register", 201,
                      [success |-> TRUE,
                       message |-> "User registered successfully",
                       data |-> [user |-> RegisterReturning(row),
                                 token |-> JwtSign(row.id, JWT_SECRET)]]))
        /\ UNCHANGED <<posts, postSeq, now, NODE_ENV, req, res, stages, raised>>

(* updatePost: authenticateToken, validateParams, validateBody, then       *)
(* await db.select().from(posts).where(id), and the two checks             *)
UpdateLookup(i) ==
    LET r == inflight[i]
        auth == authenticateToken(r.headers)
        existingPost == SelectPostById(ParseInt(r.params.id))
    IN  /\ r.route = "updatePost" /\ r.pc = "lookup"
        /\ IF ~auth.next
           THEN Respond(i, auth.res)
           ELSE IF ~idParamSchema(r.params) \/ ~updatePostSchema(r.body)
           THEN FailRequest(i, ValidationError)
           ELSE IF existingPost = {}
           THEN FailRequest(i, createError("Post not found", 404,
                                           "updatePost:252"))
           ELSE IF NotUpdateOwner(CHOOSE p \in existingPost : TRUE,
                                  auth.user.id)
           THEN FailRequest(i, createError(
                    "Not authorized to update this post", 403,
                    "updatePost:256"))
           ELSE Goto(i, "write")
        /\ UNCHANGED <<db, now, issued, NODE_ENV, req, res, stages, raised>>

(* res.json({ ..., data: { post: updatedPost[0] } }): a key whose value is *)
(* undefined is left out of the JSON text                                  *)
UpdatedPostData(returning) ==
    IF returning = {} THEN EmptyObj
    ELSE [post |-> CHOOSE p \in returning : TRUE]

(* updatePost: await db.update(posts).set(...).where(id).returning(), then *)
(* res.json(...); the rows the UPDATE finds are those of this moment       *)
UpdateWrite(i) ==
    \E parsedAssigned \in BOOLEAN :
        LET r == inflight[i]
            updateData == ValidatedBody(r.body,
                              {"title", "content", "isPublished"}, parsedAssigned)
            matched == SelectPostById(ParseInt(r.params.id))
            returning == {UpdatedRow(p, updateData, now) : p \in matched}
        IN  /\ r.route = "updatePost" /\ r.pc = "write"
            /\ IF \E row \in returning : ~ForeignKeyHolds(row)
               THEN /\ FailRequest(i, ThrownError(
                          "violates foreign key constraint", "updatePost:260"))
                    /\ UNCHANGED posts
               ELSE /\ posts' = (posts \ matched) \cup returning
                    /\ Respond(i, Json("updatePost", 200,
                          [success |-> TRUE,
                           message |-> "Post updated successfully",
                           data |-> UpdatedPostData(returning)]))
            /\ UNCHANGED <<users, userSeq, postSeq, now, issued, NODE_ENV, req,
                           res, stages, raised>>

(* deletePost: authenticateToken, validateParams, then                     *)
(* await db.select().from(posts).where(id), and the two checks             *)
DeleteLookup(i) ==
    LET r == inflight[i]
        auth == authenticateToken(r.headers)
        existingPost == SelectPostById(ParseInt(r.params.id))
    IN  /\ r.route = "deletePost" /\ r.pc = "lookup"
        /\ IF ~auth.next
           THEN Respond(i, auth.res)
           ELSE IF ~idParamSchema(r.params)
           THEN FailRequest(i, ValidationError)
           ELSE IF existingPost = {}
           THEN FailRequest(i, createError("Post not found", 404,
                                           "deletePost:314"))
           ELSE IF NotDeleteOwner(CHOOSE p \in existingPost : TRUE,
                                  auth.user.id)
           THEN FailRequest(i, createError(
                    "Not authorized to delete this post", 403,
                    "deletePost:318"))
           ELSE Goto(i, "write")
        /\ UNCHANGED <<db, now, issued, NODE_ENV, req, res, stages, raised>>

(* deletePost: await db.delete(posts).where(id), then res.json(...)        *)
DeleteWrite(i) ==
    LET r == inflight[i]
    IN  /\ r.route = "deletePost" /\ r.pc = "write"
        /\ posts' = DeleteWhereId(ParseInt(r.params.id))
        /\ Respond(i, Json("deletePost", 200,
              [success |-> TRUE, message |-> "Post deleted successfully"]))
        /\ UNCHANGED <<users, userSeq, postSeq, now, issued, NODE_ENV, req,
                       res, stages, raised>>

(* user 1 has registered and created post 1; MaxInflight requests arrive   *)
InitConcurrent ==
    /\ users = {[id |-> 1, email |-> "b@x.io",
                 password |-> BcryptHash("secret1", saltRounds),
                 firstName |-> "Ann", lastName |-> "Lee", isActive |-> TRUE]}
    /\ posts = {[id |-> 1, title |-> "T1", content |-> Null, authorId |-> 1,
                 isPublished |-> FALSE, createdAt |-> 1, updatedAt |-> 1]}
    /\ userSeq = 1
    /\ postSeq = 1
    /\ now = 1
    /\ issued = {1}
    /\ NODE_ENV \in {"development", "production"}
    /\ req = NoRequest
    /\ res = NoResponse
    /\ stages = <<>>
    /\ raised = NoError
    /\ inflight \in [1..MaxInflight -> RacingRequests]

NextConcurrent ==
    \E i \in DOMAIN inflight :
        \/ RegisterLookup(i)
        \/ RegisterHash(i)
        \/ RegisterInsert(i)
        \/ UpdateLookup(i)
        \/ UpdateWrite(i)
        \/ DeleteLookup(i)
        \/ DeleteWrite(i)

ConcurrentSpec == InitConcurrent /\ [][NextConcurrent]_vars

(* ============================== claims ================================ *)
(* a bearer token that is present, signed with the server's secret, not    *)
(* expired, and names an existing user                                     *)
ValidBearer(header) ==
    /\ Len(header) = 2
    /\ header[2].sig = JWT_SECRET
    /\ header[2].exp = "fresh"
    /\ \E u \in users : u.id = header[2].userId

ProtectedRoutes == {"getProfile", "createPost", "updatePost", "deletePost"}

(* C1: a POST /auth/register whose email already belongs to a user         *)
(* responds 400 and leaves the users table exactly as it was.              *)
C1_DuplicateEmailRejected ==
    [][(/\ Idle
        /\ req'.route = "register"
        /\ \E u \in users : u.email = req'.body.email)
       => (res'.status = 400 /\ users' = users)]_vars

C1_Witness ==
    /\ req.route = "register"
    /\ registerSchema(req.body)
    /\ \E u \in users : u.email = req.body.email
    /\ res.status = 400
    /\ stages = <<"validateBody", "register", "errorHandler">>

(* a PUT or DELETE of an existing post, authenticated as a user who is not *)
(* the post's stored owner                                                 *)
C2_OtherUsersRequest ==
    /\ Idle
    /\ req'.route \in {"updatePost", "deletePost"}
    /\ ValidBearer(req'.headers)
    /\ MatchesDigits(req'.params.id)
    /\ \E p \in posts : /\ p.id = DecimalValue(req'.params.id)
                        /\ p.authorId # req'.headers[2].userId

C3_TokenCheckFirst ==
    [][(/\ Idle
        /\ req'.route \in ProtectedRoutes
        /\ ~ValidBearer(req'.headers))
       => /\ res'.status \in {401, 403}
          /\ stages' = <<"authenticateToken">>
          /\ users' = users
          /\ posts' = posts]_vars

C3_Witness ==
    /\ req.route = "createPost"
    /\ Len(req.headers) = 2
    /\ req.headers[2].exp = "expired"
    /\ ~createPostSchema(req.body)
    /\ res.status = 403
    /\ stages = <<"authenticateToken">>

(* C4: the token in a successful register or login response carries the    *)
(* id of the user who registered or logged in: the token check accepts it  *)
(* and loads exactly that user, and GET /auth/me answers a valid token     *)
(* with the id and email of the user the token names.                      *)
C4_TokenIdentifiesUser ==
    /\ (req.route \in {"register", "login"} /\ res.status \in {200, 201}) =>
          LET token == res.body.data.token
              auth == authenticateToken(<<"Bearer", token>>)
          IN  /\ \E u \in users : /\ u.email = req.body.email
                                  /\ u.id = token.userId
              /\ auth.next
              /\ auth.user.email = req.body.email
              /\ auth.user.id = res.body.data.user.id
    /\ (req.route = "getProfile" /\ res.status = 200) =>
          /\ res.body.data.user.id = req.headers[2].userId
          /\ \E u \in users : /\ u.id = req.headers[2].userId
                              /\ u.email = res.body.data.user.email

C4_Witness ==
    /\ req.route = "login"
    /\ res.status = 200
    /\ res.body.data.token.userId = 2
    /\ Cardinality(users) = 2

(* two login bodies that pass loginSchema, the first with an email no user *)
(* has, the second with a registered email and a wrong password            *)
C5_FailingPairs ==
    {pair \in LoginBodies \X LoginBodies :
        /\ loginSchema(pair[1]) /\ loginSchema(pair[2])
        /\ \A u \in users : u.email # pair[1].email
        /\ \E u \in users : /\ u.email = pair[2].email
                            /\ ~BcryptCompare(pair[2].password, u.password)}

(* C5 as stated: a login with an unknown email and a login with a known    *)
(* email and a wrong password produce the same response.                   *)
C5_Original ==
    \A pair \in C5_FailingPairs :
        loginResponse(pair[1], NODE_ENV) = loginResponse(pair[2], NODE_ENV)

(* C5 amended: the two failures have the same status 401, the same message *)
(* and the same set of body fields, and are equal outside development      *)
(* mode; in development mode the stack field names the check that threw.   *)
C5_LoginFailuresAlike ==
    \A pair \in C5_FailingPairs :
        LET r1 == loginResponse(pair[1], NODE_ENV)
            r2 == loginResponse(pair[2], NODE_ENV)
        IN  /\ r1.status = 401 /\ r2.status = 401
            /\ r1.body.message = r2.body.message
            /\ r1.body.success = r2.body.success
            /\ DOMAIN r1.body = DOMAIN r2.body
            /\ NODE_ENV # "development" => r1 = r2

C5_Witness ==
    /\ req.route = "login"
    /\ res.status = 401
    /\ \E pair \in C5_FailingPairs : pair[2] = req.body
    /\ NODE_ENV = "development"

(* the page and limit a GET /posts query asks for                          *)
C6_Page == IF "page" \in DOMAIN req.query
           THEN DecimalValue(req.query.page) ELSE 1
C6_Limit == IF "limit" \in DOMAIN req.query
            THEN DecimalValue(req.query.limit) ELSE 10
C6_Max(a, b) == IF a >= b THEN a ELSE b

Controllers ==
    {"register", "login", "getProfile", "getAllPosts", "getPostById",
     "getPostsByUserId", "createPost", "updatePost", "deletePost"}

(* C7 as stated: every error response is written by the terminal error     *)
(* handler.                                                                *)
C7_Original ==
    (~Idle /\ res.status >= 400) => res.writer = "errorHandler"

(* C7 amended: every error response is written by the terminal error       *)
(* handler, except the 401 and 403 answers to a missing or invalid bearer  *)
(* token, which authenticateToken writes itself; no controller writes an   *)
(* error response.                                                         *)
C7_ErrorWriters ==
    /\ (~Idle /\ res.status >= 400) =>
          \/ /\ res.writer = "errorHandler"
             /\ stages[Len(stages)] = "errorHandler"
          \/ /\ res.writer = "authenticateToken"
             /\ res.status \in {401, 403}
             /\ req.route \in ProtectedRoutes
             /\ ~ValidBearer(req.headers)
    /\ res.writer \in Controllers => res.status \in {200, 201}

C7_Witness ==
    /\ req.route = "deletePost"
    /\ res.status = 403
    /\ res.writer = "errorHandler"
    /\ stages = <<"authenticateToken", "validateParams", "deletePost",
                  "errorHandler">>

Envelope == {"success", "message", "data", "errors"}

(* C8 as stated: every response body has a boolean success field, true     *)
(* exactly on 2xx, and no top-level field besides message, data, errors.   *)
C8_Original ==
    ~Idle =>
        /\ "success" \in DOMAIN res.body
        /\ res.body.success \in BOOLEAN
        /\ res.body.success = (res.status \in 200..299)
        /\ DOMAIN res.body \subseteq Envelope

(* C8 amended: every response body has a boolean success field, true       *)
(* exactly on 2xx; besides message, data and errors the only top-level     *)
(* fields are timestamp on GET /health, version, documentation and         *)
(* endpoints on GET /, and stack on the error handler's responses in       *)
(* development mode.                                                       *)
C8_EnvelopeFields ==
    ~Idle =>
        /\ "success" \in DOMAIN res.body
        /\ res.body.success \in BOOLEAN
        /\ res.body.success = (res.status \in 200..299)
        /\ DOMAIN res.body \ Envelope =
             IF req.route = "health" THEN {"timestamp"}
             ELSE IF req.route = "root"
             THEN {"version", "documentation", "endpoints"}
             ELSE IF res.writer = "errorHandler" /\ NODE_ENV = "development"
             THEN {"stack"}
             ELSE {}

C8_Witness ==
    /\ req.route = "getPostById"
    /\ res.status = 404
    /\ NODE_ENV = "development"
    /\ DOMAIN res.body = {"success", "message", "stack"}

(* C9: no request updates or deletes a user row: every row of the users    *)
(* table is still there, field for field, after any request.               *)
C9_UsersNeverChanged ==
    [][\A u \in users : u \in users']_vars

C9_Witness ==
    /\ Cardinality(users) = 2
    /\ req.route = "register"
    /\ res.status = 201

(* C10: every post's authorId is the id of an existing user, and the post  *)
(* createPost stores carries the id of the user the token check loaded.    *)
C10_AuthorExists ==
    /\ \A p \in posts : \E u \in users : u.id = p.authorId
    /\ (req.route = "createPost" /\ res.status = 201) =>
          /\ res.body.data.post \in posts
          /\ res.body.data.post.authorId = req.headers[2].userId

C10_Witness ==
    /\ req.route = "createPost"
    /\ res.status = 201
    /\ res.body.data.post.authorId = 2
    /\ \E p \in posts : p.authorId = 1

(* C11 as stated: GET /posts/user/:userId with a numeric userId and valid   *)
(* page and limit passes parameter validation and responds 200 with that   *)
(* user's posts and a pagination envelope.                                 *)
C11_Original ==
    (/\ req.route = "getPostsByUserId"
     /\ MatchesDigits(req.params.userId)
     /\ paginationSchema(req.query)) =>
        /\ res.status = 200
        /\ stages = <<"validateParams", "validateQuery", "getPostsByUserId">>
        /\ "pagination" \in DOMAIN res.body.data
        /\ \A i \in 1..Len(res.body.data.posts) :
              \E p \in posts :
                  /\ p.authorId = DecimalValue(req.params.userId)
                  /\ res.body.data.posts[i] = PostColumns(p)

ValidationStages == {"validateBody", "validateParams", "validateQuery"}

(* C12: the error handler answers with the status the error carries (400   *)
(* from validation and the duplicate-email check, 401 from login, 403 from *)
(* the ownership checks, 404 from the post lookups and notFound) and with  *)
(* 500 for an error that carries none; an operational error never gets a   *)
(* 5xx and an error without a status never a 4xx.                          *)
C12_StatusFromError ==
    /\ (res.writer = "errorHandler") = (raised.stack # "none")
    /\ res.writer = "errorHandler" =>
          /\ res.status = IF raised.statusCode # 0 THEN raised.statusCode
                          ELSE 500
          /\ raised.isOperational => res.status \in 400..499
          /\ raised.statusCode = 0 => res.status = 500
          /\ res.status >= 500 => ~raised.isOperational
          /\ stages[Len(stages) - 1] \in ValidationStages => res.status = 400
          /\ stages[Len(stages) - 1] = "login" => res.status = 401
          /\ stages[Len(stages) - 1] = "notFound" => res.status = 404
          /\ stages[Len(stages) - 1] \in {"updatePost", "deletePost"} =>
                res.status \in {403, 404, 500}
          /\ stages[Len(stages) - 1] = "getPostById" => res.status = 404
          /\ stages[Len(stages) - 1] = "register" => res.status = 400

C12_Witness ==
    /\ res.writer = "errorHandler"
    /\ raised.statusCode = 0
    /\ ~raised.isOperational
    /\ res.status = 500

(* the passwords clients send                                              *)
C13_PlainPasswords ==
    {b.password : b \in RegisterBodies} \cup {b.password : b \in LoginBodies}

(* the objects of a response body that can describe a user or a post: the  *)
(* body itself, its data, and the user, post, posts and author objects     *)
C13_Objects ==
    LET body == res.body
        data == IF "data" \in DOMAIN body THEN {body.data} ELSE {}
        user == {d.user : d \in {x \in data : "user" \in DOMAIN x}}
        token == {d.token : d \in {x \in data : "token" \in DOMAIN x}}
        post == {d.post : d \in {x \in data : "post" \in DOMAIN x}}
        listed == UNION {{d.posts[i] : i \in 1..Len(d.posts)} :
                            d \in {x \in data : "posts" \in DOMAIN x}}
        author == {q.author : q \in {x \in post \cup listed :
                                        "author" \in DOMAIN x}}
    IN  {body} \cup data \cup user \cup token \cup post \cup listed
        \cup author

(* C13: no response carries a password: no object of a response body has   *)
(* a password field, no name or email field holds a password a client      *)
(* sent, and the token carries only the user id.                           *)
C13_NoPasswordInResponse ==
    ~Idle =>
        /\ \A o \in C13_Objects :
              /\ "password" \notin DOMAIN o
              /\ \A k \in DOMAIN o \cap {"email", "firstName", "lastName"} :
                    o[k] \notin C13_PlainPasswords
        /\ (req.route \in {"register", "login"} /\ res.status \in {200, 201}) =>
              /\ DOMAIN res.body.data = {"user", "token"}
              /\ DOMAIN res.body.data.token = {"userId", "sig", "exp"}
              /\ res.body.data.user.id = res.body.data.token.userId

C13_Witness ==
    /\ req.route = "login"
    /\ res.status = 200
    /\ \E u \in users : /\ u.id = res.body.data.user.id
                        /\ "password" \in DOMAIN u
                        /\ BcryptCompare(req.body.password, u.password)
    /\ "password" \notin DOMAIN res.body.data.user

C14_Registrants == {i \in DOMAIN inflight : inflight[i].route = "register"}

(* C14 as stated: however two or more registrations of one email           *)
(* interleave, at most one user row with that email exists, and once all   *)
(* have been answered exactly one got 201 and every other one 400.         *)
C14_Original ==
    /\ \A u, v \in users : u.email = v.email => u = v
    /\ (/\ Cardinality(C14_Registrants) >= 2
        /\ \A i \in C14_Registrants : inflight[i].pc = "done") =>
          \E i \in C14_Registrants :
              /\ inflight[i].res.status = 201
              /\ \A j \in C14_Registrants \ {i} :
                    inflight[j].res.status = 400

(* C15 as stated: however the owner's PUT of a post interleaves with a     *)
(* DELETE of it, the PUT responds 404, or 200 with the updated post in     *)
(* data.post, and no step brings back a post id that was deleted.          *)
C15_Original ==
    [][/\ \A i \in DOMAIN inflight :
            (/\ inflight[i].route = "updatePost"
             /\ inflight[i].pc # "done"
             /\ inflight'[i].pc = "done") =>
                \/ inflight'[i].res.status = 404
                \/ /\ inflight'[i].res.status = 200
                   /\ "post" \in DOMAIN inflight'[i].res.body.data
                   /\ inflight'[i].res.body.data.post \in posts'
                   /\ inflight'[i].res.body.data.post.id =
                        DecimalValue(inflight[i].params.id)
       /\ \A p \in posts' : \E q \in posts : q.id = p.id]_vars

(* the posts a listing request selects from                                *)
C17_Matching ==
    IF req.route = "getPostsByUserId"
    THEN {p \in posts : p.authorId = ParseInt(req.params.userId)}
    ELSE posts

C18_Deleted(id) ==
    /\ id \in 1..postSeq
    /\ \A p \in posts : p.id # id

(* the next request names a deleted post in its path                       *)
C18_OnDeleted ==
    /\ Idle
    /\ req'.route \in {"getPostById", "updatePost", "deletePost"}
    /\ MatchesDigits(req'.params.id)
    /\ C18_Deleted(DecimalValue(req'.params.id))

====
